---- MODULE Spec2Model ----
(***************************************************************************)
(* lichess-bot, main.py: the control stream relay (watch_control_stream),  *)
(* the admission controller (the loop of start) and the session driver     *)
(* (play_game) with its helpers, as one state machine.                     *)
(***************************************************************************)
EXTENDS Integers, Sequences, FiniteSets, TLC

(* ------------------------------ bounds -------------------------------- *)
\* config["max_concurrent_games"] of the configuration under check
MaxConcurrentGames == 1
\* gameStart events the remote sends (game ids 1..MaxSessions)
MaxSessions == 2
\* challenge events the remote sends (challenge ids 1..MaxChallenges)
MaxChallenges == 2
\* lines the relay has put and the controller has not taken yet
MaxQueue == 1
\* messages a game stream carries after its snapshot
MaxStream == 2
\* plies in a move list of a snapshot or of a gameState update
MaxPly == 2
\* the clock stops here
MaxTime == 40
\* seconds between two observations of the clock
TickStep == 20

(* ------------------------- program constants -------------------------- *)
\* game.abort_in(20)
AbortWindow == 20
\* len(game.state["moves"]) < 6
AbortMovesLen == 6

max_games == MaxConcurrentGames

Sessions == 1..MaxSessions

VARIABLES
    config,            \* the configuration start() was called with
    control_queue,     \* manager.Queue(): control events not yet taken
    control_stream,    \* the relay process: "started" or "terminated"
    challenge_queue,   \* pending challenges
    busy_processes,
    queued_processes,
    ctl_pc,            \* "loop", or "raised" once an exception left the loop
    anomalies,         \* lines "Something went wrong..." printed
    li_log,            \* decline/accept requests of the last handled event
    next_chal,         \* challenge events the remote has sent
    next_game,         \* gameStart events the remote has sent
    now,               \* time.time()
    sess_pc,           \* per game id: position of play_game
    game,              \* per game id: model.Game (is_white, state, abort_at)
    board,             \* per game id: move stack of the chess.Board
    engine,            \* per game id: engine made? / times engine.quit() ran
    dones,             \* per game id: local_game_done events put
    streamed,          \* per game id: stream messages consumed after snapshot
    sess_log           \* collaborator calls of the last session step

vars == <<config, control_queue, control_stream, challenge_queue, busy_processes,
          queued_processes, ctl_pc, anomalies, li_log, next_chal, next_game,
          now, sess_pc, game, board, engine, dones, streamed, sess_log>>

ctl_vars == <<control_stream, challenge_queue, busy_processes,
              queued_processes, ctl_pc, anomalies, li_log>>

remote_vars == <<next_chal, next_game>>

sess_vars == <<sess_pc, game, board, engine, dones, streamed, sess_log>>

(* ------------------------- control stream relay ----------------------- *)
NoChal == [id |-> 0, score |-> 0, supported |-> FALSE]

\* A control event: the parsed json object, reduced to the keys start() reads.
Event(t, c, g) == [type |-> t, challenge |-> c, game |-> g]

Ping == Event("ping", NoChal, 0)

LocalGameDone == Event("local_game_done", NoChal, 0)

Scores == {1, 2}

\* The lines the remote may send next: an empty keep-alive line, a chatLine,
\* the next challenge, the next gameStart.
FeedLines(idle, chals, games) ==
    {[empty |-> TRUE, json |-> Event("", NoChal, 0)] : x \in idle \cap {"ping"}}
    \cup {[empty |-> FALSE, json |-> Event("chatLine", NoChal, 0)] :
             x \in idle \cap {"chatLine"}}
    \cup {[empty |-> FALSE,
           json |-> Event("challenge",
                          [id |-> next_chal + 1, score |-> sc, supported |-> sup],
                          0)] :
             sc \in IF next_chal < chals THEN Scores ELSE {},
             sup \in BOOLEAN}
    \cup {[empty |-> FALSE, json |-> Event("gameStart", NoChal, next_game + 1)] :
             x \in IF next_game < games THEN {0} ELSE {}}

\* lines 36-40 without the test of line 36: every line is parsed and put
RelayLineVerbatim(evnt) == evnt.json

\* watch_control_stream, one iteration of its for loop
RelayLine(evnt) ==
    IF ~evnt.empty THEN evnt.json ELSE Ping

\* lines put by the relay and not yet taken by start()
RelayedInQueue ==
    Cardinality({i \in 1..Len(control_queue) :
                   control_queue[i].type # "local_game_done"})

WatchControlStream(idle, chals, games) ==
    /\ control_stream = "started"
    /\ RelayedInQueue < MaxQueue
    /\ \E evnt \in FeedLines(idle, chals, games) :
        /\ control_queue' = Append(control_queue, RelayLine(evnt))
        /\ next_chal' = IF evnt.json.type = "challenge" THEN next_chal + 1
                        ELSE next_chal
        /\ next_game' = IF evnt.json.type = "gameStart" THEN next_game + 1
                        ELSE next_game
    /\ UNCHANGED <<config, now>>
    /\ UNCHANGED ctl_vars
    /\ UNCHANGED sess_vars

(* ------------------------- admission controller ----------------------- *)
\* Outcomes of a request to the command sink (lichess.Lichess): success, an
\* HTTPError with status 404, an HTTPError with another status, or an
\* exception that is no HTTPError.
LiResponses == {"ok", "404", "500", "ConnectionError"}

\* the sort key without its minus sign: the lowest score comes first
SortKeyAscending(c) == c.score

\* challenge_queue.sort(key=lambda c: -c.score())
SortKey(c) == 0 - c.score

\* list.sort is stable: an element goes behind every element whose key is
\* not greater than its own.
RECURSIVE InsertByKey(_, _)
InsertByKey(sorted, c) ==
    IF sorted = <<>> THEN <<c>>
    ELSE IF SortKey(Head(sorted)) <= SortKey(c)
         THEN <<Head(sorted)>> \o InsertByKey(Tail(sorted), c)
         ELSE <<c>> \o sorted

RECURSIVE SortChallenges(_)
SortChallenges(q) ==
    IF q = <<>> THEN <<>>
    ELSE InsertByKey(SortChallenges(SubSeq(q, 1, Len(q) - 1)), q[Len(q)])

\* lines 63-65
EnqueueChallenge(q, chlng) ==
    LET appended == Append(q, [id |-> chlng.id, score |-> chlng.score])
    IN  IF config.sort_challenges_by # "first" THEN SortChallenges(appended)
        ELSE appended

\* the responses decline_challenge may give for this event
DeclineResponses(event) ==
    IF event.type = "challenge" /\ ~event.challenge.supported THEN LiResponses
    ELSE {"ok"}

\* the handler of lines 70-72 without its raise
DeclineSwallowsAll(resp) == FALSE

\* the handler of lines 70-72 without its test: every HTTPError is re-raised
DeclineRaisesMissing(resp) == resp # "ok"

\* lines 67-72: TRUE when the failed decline is re-raised
DeclineRaises(resp) == resp \notin {"ok", "404"}

\* the guard of line 83 with <= for <
HasCapacityOffByOne(queued, busy) == queued + busy <= max_games

\* the guard of line 83 keeping one slot free
HasCapacityShort(queued, busy) == queued + busy < max_games - 1

\* the guard of the drain loop, line 83
HasCapacity(queued, busy) == queued + busy < max_games

\* the handler of lines 90-94 with its test turned round: a missing
\* challenge is raised
AcceptResultRaises404(status) ==
    IF status = "ok" THEN "queued" ELSE "raise"

\* lines 85-94 with line 88 run for a missing challenge too
AcceptResultCounts404(status) ==
    IF status \in {"ok", "404"} THEN "queued" ELSE "raise"

\* lines 85-94: what the drain loop does with the response to an accept
AcceptResult(status) ==
    IF status = "ok" THEN "queued"
    ELSE IF status = "404" THEN "skipped"
    ELSE "raise"

\* lines 83-94: the drain loop; rs are the responses accept_challenge gives,
\* in order.  The result is the queue, the counter, the requests made and
\* whether an exception left the loop.
RECURSIVE Drain(_, _, _, _, _)
Drain(q, queued, busy, rs, log) ==
    IF ~(HasCapacity(queued, busy) /\ q # <<>>)
    THEN [q |-> q, queued |-> queued, accept |-> log, raised |-> FALSE]
    ELSE LET chlng == Head(q)
             req == Append(log, [id |-> chlng.id, status |-> Head(rs)])
         IN  IF AcceptResult(Head(rs)) = "queued"
             THEN Drain(Tail(q), queued + 1, busy, Tail(rs), req)
             ELSE IF AcceptResult(Head(rs)) = "skipped"
             THEN Drain(Tail(q), queued, busy, Tail(rs), req)
             ELSE [q |-> Tail(q), queued |-> queued, accept |-> req,
                   raised |-> TRUE]

\* lines 74-77 without the test of line 74
DequeueUnguarded(queued) == queued - 1

\* lines 74-77: queued_processes after a gameStart
Dequeue(queued) == IF queued <= 0 THEN queued ELSE queued - 1

\* lines 57-81: the branch on the event's type.  decl is the response
\* decline_challenge gives if it is called.
Dispatch(event, decl) ==
    LET same == [q |-> challenge_queue, busy |-> busy_processes,
                 queued |-> queued_processes, anomalies |-> anomalies,
                 launch |-> 0, decline |-> <<>>, raised |-> FALSE]
    IN  CASE event.type = "local_game_done" ->
               [same EXCEPT !.busy = busy_processes - 1]
          [] event.type = "challenge" ->
               IF event.challenge.supported
               THEN [same EXCEPT !.q = EnqueueChallenge(challenge_queue,
                                                        event.challenge)]
               ELSE [same EXCEPT
                       !.decline = <<[id |-> event.challenge.id,
                                      status |-> decl]>>,
                       !.raised = DeclineRaises(decl)]
          [] event.type = "gameStart" ->
               [same EXCEPT
                  !.queued = Dequeue(queued_processes),
                  !.anomalies = IF queued_processes <= 0 THEN anomalies + 1
                                ELSE anomalies,
                  !.launch = event.game,
                  !.busy = busy_processes + 1]
          [] OTHER -> same

\* play_game is running
Running == {"Initializing", "AwaitingFirstMove", "Active"}

\* play_game is over: it returned after the stream ended ("Returned") or after
\* line 141 caught an exception ("Abandoned"), or an exception left it
\* ("Raised")
Terminated == {"Returned", "Abandoned", "Raised"}

\* pool.apply_async(play_game, ...), line 79
ApplyAsync(pcs, g) ==
    IF g = 0 THEN pcs ELSE [pcs EXCEPT ![g] = "Initializing"]

\* the with block of line 54 is left by an exception: the pool is terminated
\* and its workers with it
PoolExit(pcs) ==
    [s \in Sessions |-> IF pcs[s] \in Running THEN "Killed" ELSE pcs[s]]

\* lines 56-94, one iteration of the loop of start().  The loop has no break:
\* it is left by an exception only, which leaves start() through the with
\* block of line 54 and passes lines 96-97 by.
HandleEvent ==
    /\ ctl_pc = "loop"
    /\ control_queue # <<>>
    /\ \E decl \in DeclineResponses(Head(control_queue)) :
       \E rs \in [1..Len(Dispatch(Head(control_queue), decl).q) -> LiResponses] :
        LET event == Head(control_queue)
            d == Dispatch(event, decl)
            r == IF d.raised
                 THEN [q |-> d.q, queued |-> d.queued, accept |-> <<>>,
                       raised |-> TRUE]
                 ELSE Drain(d.q, d.queued, d.busy, rs, <<>>)
        IN  /\ control_queue' = Tail(control_queue)
            /\ challenge_queue' = r.q
            /\ busy_processes' = d.busy
            /\ queued_processes' = r.queued
            /\ anomalies' = d.anomalies
            /\ li_log' = [decline |-> d.decline, accept |-> r.accept]
            /\ ctl_pc' = IF r.raised THEN "raised" ELSE "loop"
            /\ sess_pc' = IF r.raised THEN PoolExit(ApplyAsync(sess_pc, d.launch))
                          ELSE ApplyAsync(sess_pc, d.launch)
    /\ UNCHANGED <<config, control_stream, now, game, board, engine, dones,
                   streamed, sess_log>>
    /\ UNCHANGED remote_vars

(* ----------------------------- model.Game ----------------------------- *)
MoveSet == {"e2e4", "a7a8q"}

\* characters of a move in UCI notation
UciLen(m) == IF m = "a7a8q" THEN 5 ELSE 4

RECURSIVE MoveLists(_)
MoveLists(n) ==
    IF n = 0 THEN {<<>>}
    ELSE MoveLists(n - 1)
         \cup {Append(ms, m) : ms \in {l \in MoveLists(n - 1) : Len(l) = n - 1},
                               m \in MoveSet}

\* len(game.state["moves"]): the moves travel as one string, separated by
\* single blanks
RECURSIVE MovesStrLen(_)
MovesStrLen(moves) ==
    IF moves = <<>> THEN 0
    ELSE IF Len(moves) = 1 THEN UciLen(moves[1])
    ELSE UciLen(Head(moves)) + 1 + MovesStrLen(Tail(moves))

NoGame == [is_white |-> FALSE, white_starts |-> TRUE, moves |-> <<>>,
           abort_at |-> 0]

\* model.Game(...): the snapshot gives the colour and the moves played so
\* far; the idle-abort deadline starts one window from the construction
NewGame(snapshot) ==
    [is_white |-> snapshot.is_white, white_starts |-> snapshot.white_starts,
     moves |-> snapshot.moves, abort_at |-> now + AbortWindow]

\* game.abort_in(seconds)
AbortIn(g, seconds) == [g EXCEPT !.abort_at = now + seconds]

\* game.should_abort_now(): the deadline has passed
ShouldAbortNow(g) == now > g.abort_at

(* --------------------------- session driver --------------------------- *)
\* line 141
TransportErrors == {"RemoteDisconnected", "ConnectionError", "ProtocolError",
                    "HTTPError"}

\* what a collaborator may raise: the four exceptions play_game catches and
\* one it does not
Raisable == TransportErrors \cup {"Exception"}

\* lines 141-143: where play_game is once the try statement was left by e
Except(e) == IF e \in TransportErrors THEN "Abandoned" ELSE "Raised"

\* line 217-220
UpdateBoard(b, move) == Append(b, move)

\* lines 199-203: the moves of the snapshot are replayed one at a time
RECURSIVE ReplayMoves(_, _)
ReplayMoves(b, moves) ==
    IF moves = <<>> THEN b
    ELSE ReplayMoves(UpdateBoard(b, Head(moves)), Tail(moves))

SetupBoard(g) == ReplayMoves(<<>>, g.moves)

\* line 207 taking White to have the first move of every game
IsWhiteToMoveFromStart(g, moves) == (Len(moves) % 2) = 0

\* lines 206-207
IsWhiteToMove(g, moves) ==
    (Len(moves) % 2) = (IF g.white_starts THEN 0 ELSE 1)

\* lines 210-214
IsEngineMove(g, moves) ==
    LET is_w == g.is_white /\ IsWhiteToMove(g, moves)
        is_b == g.is_white = FALSE /\ IsWhiteToMove(g, moves) = FALSE
    IN  is_w \/ is_b

\* the condition of line 131
BookInDepth(moves) ==
    /\ config.engine.polyglot = TRUE
    /\ Len(moves) <= (config.engine.polyglot_max_depth * 2) - 1

\* line 138 counting the moves instead of the characters
IdleAbortCountsMoves(g) == ShouldAbortNow(g) /\ Len(g.moves) < AbortMovesLen

\* the condition of line 138
IdleAbort(g) == ShouldAbortNow(g) /\ MovesStrLen(g.moves) < AbortMovesLen

NoLog == [game |-> 0, msg |-> "none", ply |-> 0, calls |-> {},
          raised |-> "none"]

\* the last step of a session: the game, the message handled, the length of
\* the move list the step split (0 when it split none), the collaborator
\* calls made for it and the exception that ended it
Log(s, msg, ply, calls, e) ==
    [game |-> s, msg |-> msg, ply |-> ply, calls |-> calls, raised |-> e]

Failure(resp) == IF resp = "ok" THEN "none" ELSE resp

Snapshots(colours, starts, lists) ==
    [is_white : colours, white_starts : starts, moves : lists]

\* play_game is over with position pc: its locals are gone
Exit(s, pc) ==
    /\ sess_pc' = [sess_pc EXCEPT ![s] = pc]
    /\ game' = [game EXCEPT ![s] = NoGame]
    /\ board' = [board EXCEPT ![s] = <<>>]
    /\ streamed' = [streamed EXCEPT ![s] = 0]

\* the finally clause without line 149
FinallySkipsDone(s, pc) ==
    /\ engine' = [engine EXCEPT ![s].quits = @ + 1]
    /\ UNCHANGED <<dones, control_queue>>
    /\ Exit(s, pc)

\* lines 144-149: the finally clause
Finally(s, pc) ==
    /\ engine' = [engine EXCEPT ![s].quits = @ + 1]
    /\ dones' = [dones EXCEPT ![s] = @ + 1]
    /\ control_queue' = Append(control_queue, LocalGameDone)
    /\ Exit(s, pc)

\* lines 100-110: the snapshot is read, the board set up, the engine made and
\* its pre-game hook run.  A failure before the engine is made (the stream,
\* the snapshot, the factory) or of the hook leaves play_game at once.
SessionInitialize(s, snapshots, errs) ==
    /\ sess_pc[s] = "Initializing"
    /\ \/ \E snapshot \in snapshots :
            /\ game' = [game EXCEPT ![s] = NewGame(snapshot)]
            /\ board' = [board EXCEPT ![s] = SetupBoard(NewGame(snapshot))]
            /\ engine' = [engine EXCEPT ![s].made = TRUE]
            /\ sess_pc' = [sess_pc EXCEPT ![s] = "AwaitingFirstMove"]
            /\ sess_log' = Log(s, "snapshot", Len(snapshot.moves), {"pre_game"},
                               "none")
            /\ UNCHANGED streamed
       \/ \E e \in errs, made \in BOOLEAN :
            /\ engine' = [engine EXCEPT ![s].made = made]
            /\ sess_log' = Log(s, "snapshot", 0,
                               IF made THEN {"pre_game"} ELSE {}, e)
            /\ Exit(s, "Raised")
    /\ UNCHANGED <<config, control_queue, now, dones>>
    /\ UNCHANGED ctl_vars
    /\ UNCHANGED remote_vars

\* lines 155-162 moving from the initial position only
PlayFirstMoveAtStart(g) ==
    IF IsEngineMove(g, g.moves) /\ g.moves = <<>>
    THEN {"first_search", "make_move"} ELSE {}

\* lines 155-162: the calls play_first_move makes
PlayFirstMove(g) ==
    IF IsEngineMove(g, g.moves) THEN {"first_search", "make_move"} ELSE {}

\* lines 165-174: the calls play_first_book_move makes; book is what
\* get_book_move returns
PlayFirstBookMove(g, book) ==
    IF IsEngineMove(g, g.moves)
    THEN IF book # "None" THEN {"get_book_move", "make_move"}
         ELSE {"get_book_move"} \cup PlayFirstMove(g)
    ELSE {}

\* lines 112-117
FirstMoveCalls(g, book) ==
    IF config.engine.polyglot = TRUE THEN PlayFirstBookMove(g, book)
    ELSE PlayFirstMove(g)

\* what get_book_move may return when it is called
BookMoves(called) == IF called THEN {"None", "e2e4"} ELSE {"None"}

\* what a request to the command sink may do when it is made
Outcomes(made, errs) == IF made THEN {"ok"} \cup errs ELSE {"ok"}

\* lines 112-117 run outside the try statement: an exception of make_move
\* leaves play_game at once
SessionFirstMove(s, errs) ==
    /\ sess_pc[s] = "AwaitingFirstMove"
    /\ \E book \in BookMoves(config.engine.polyglot
                              /\ IsEngineMove(game[s], game[s].moves)) :
       \E resp \in Outcomes("make_move" \in FirstMoveCalls(game[s], book), errs) :
            /\ sess_log' = Log(s, "first", Len(game[s].moves),
                               FirstMoveCalls(game[s], book), Failure(resp))
            /\ IF resp # "ok" THEN Exit(s, "Raised")
               ELSE /\ sess_pc' = [sess_pc EXCEPT ![s] = "Active"]
                    /\ UNCHANGED <<game, board, streamed>>
    /\ UNCHANGED <<config, control_queue, now, engine, dones>>
    /\ UNCHANGED ctl_vars
    /\ UNCHANGED remote_vars

GameMessages(types, lists) ==
    {[type |-> t, moves |-> <<>>] : t \in types \cap {"ping", "chatLine"}}
    \cup {[type |-> "gameState", moves |-> ms] : ms \in lists}

\* lines 129-135: the calls made for a gameState update whose move list is
\* not empty; book is what get_book_move returns
GameStateCalls(g, moves, book) ==
    IF IsEngineMove(g, moves)
    THEN (IF BookInDepth(moves) THEN {"get_book_move"} ELSE {})
         \cup (IF BookInDepth(moves) /\ book # "None" THEN {} ELSE {"search"})
         \cup {"make_move"}
    ELSE {}

\* lines 125-136
OnGameState(s, upd, errs) ==
    IF upd.moves = <<>>
    THEN \* moves[-1] of an empty list
         /\ sess_log' = Log(s, "gameState", 0, {}, "IndexError")
         /\ Finally(s, Except("IndexError"))
    ELSE \E book \in BookMoves(IsEngineMove(game[s], upd.moves)
                                /\ BookInDepth(upd.moves)) :
         \E resp \in Outcomes(IsEngineMove(game[s], upd.moves), errs) :
            LET calls == GameStateCalls(game[s], upd.moves, book)
                g == [game[s] EXCEPT !.moves = upd.moves]
            IN  /\ sess_log' = Log(s, "gameState", Len(upd.moves), calls,
                                   Failure(resp))
                /\ IF resp # "ok" THEN Finally(s, Except(resp))
                   ELSE /\ game' = [game EXCEPT
                                      ![s] = IF "make_move" \in calls
                                             THEN AbortIn(g, AbortWindow)
                                             ELSE g]
                        /\ board' = [board EXCEPT
                                       ![s] = UpdateBoard(@, upd.moves[Len(upd.moves)])]
                        /\ streamed' = [streamed EXCEPT ![s] = @ + 1]
                        /\ UNCHANGED <<control_queue, engine, dones, sess_pc>>

\* lines 137-140
OnPing(s, errs) ==
    \E resp \in Outcomes(IdleAbort(game[s]), errs) :
        /\ sess_log' = Log(s, "ping", 0,
                           IF IdleAbort(game[s]) THEN {"abort"} ELSE {},
                           Failure(resp))
        /\ IF resp # "ok" THEN Finally(s, Except(resp))
           ELSE /\ streamed' = [streamed EXCEPT ![s] = @ + 1]
                /\ UNCHANGED <<control_queue, engine, dones, sess_pc, game,
                               board>>

\* lines 123-124
OnChatLine(s) ==
    /\ sess_log' = Log(s, "chatLine", 0, {"react"}, "none")
    /\ streamed' = [streamed EXCEPT ![s] = @ + 1]
    /\ UNCHANGED <<control_queue, engine, dones, sess_pc, game, board>>

\* lines 120-140, one iteration of the for loop; an exception of make_move or
\* abort is caught by line 141 or passes it, and the finally clause runs
SessionUpdate(s, messages, errs) ==
    /\ sess_pc[s] = "Active"
    /\ streamed[s] < MaxStream
    /\ \E upd \in messages :
        CASE upd.type = "chatLine" -> OnChatLine(s)
          [] upd.type = "gameState" -> OnGameState(s, upd, errs)
          [] upd.type = "ping" -> OnPing(s, errs)
    /\ UNCHANGED <<config, now>>
    /\ UNCHANGED ctl_vars
    /\ UNCHANGED remote_vars

\* line 120: the stream is exhausted, or reading it raises
SessionStreamEnd(s, errs) ==
    /\ sess_pc[s] = "Active"
    /\ \/ /\ sess_log' = Log(s, "end", 0, {}, "none")
          /\ Finally(s, "Returned")
       \/ \E e \in errs :
            /\ sess_log' = Log(s, "end", 0, {}, e)
            /\ Finally(s, Except(e))
    /\ UNCHANGED <<config, now>>
    /\ UNCHANGED ctl_vars
    /\ UNCHANGED remote_vars

\* time passes
Tick(d) ==
    /\ now + d <= MaxTime
    /\ now' = now + d
    /\ UNCHANGED <<config, control_queue>>
    /\ UNCHANGED ctl_vars
    /\ UNCHANGED remote_vars
    /\ UNCHANGED sess_vars

(* --------------------------- specifications --------------------------- *)
Configs(sorts, books) ==
    [sort_challenges_by : sorts,
     engine : [polyglot : books, polyglot_max_depth : {1}]]

InitWith(configs) ==
    /\ config \in configs
    /\ control_queue = <<>>
    /\ control_stream = "started"
    /\ challenge_queue = <<>>
    /\ busy_processes = 0
    /\ queued_processes = 0
    /\ ctl_pc = "loop"
    /\ anomalies = 0
    /\ li_log = [decline |-> <<>>, accept |-> <<>>]
    /\ next_chal = 0
    /\ next_game = 0
    /\ now = 0
    /\ sess_pc = [s \in Sessions |-> "Unlaunched"]
    /\ game = [s \in Sessions |-> NoGame]
    /\ board = [s \in Sessions |-> <<>>]
    /\ engine = [s \in Sessions |-> [made |-> FALSE, quits |-> 0]]
    /\ dones = [s \in Sessions |-> 0]
    /\ streamed = [s \in Sessions |-> 0]
    /\ sess_log = NoLog

\* The orchestrator: every control event; the sessions play White from the
\* initial position and their streams end, or fail, after the snapshot.
Init == InitWith(Configs({"best", "first"}, {FALSE}))

Next ==
    \/ WatchControlStream({"ping", "chatLine"}, MaxChallenges, MaxSessions)
    \/ HandleEvent
    \/ \E s \in Sessions :
         SessionInitialize(s, Snapshots({TRUE}, {TRUE}, {<<>>}), Raisable)
    \/ \E s \in Sessions : SessionFirstMove(s, Raisable)
    \/ \E s \in Sessions : SessionStreamEnd(s, Raisable)

Spec == Init /\ [][Next]_vars

\* One game in depth: one gameStart and no challenge; the session plays
\* either colour from any short position, with or without an opening book,
\* and time passes.
InitGame == InitWith(Configs({"best"}, BOOLEAN))

NextGame ==
    \/ WatchControlStream({}, 0, 1)
    \/ HandleEvent
    \/ \E s \in Sessions :
         SessionInitialize(s, Snapshots(BOOLEAN, BOOLEAN, MoveLists(MaxPly)),
                           Raisable)
    \/ \E s \in Sessions : SessionFirstMove(s, Raisable)
    \/ \E s \in Sessions :
         SessionUpdate(s, GameMessages({"ping", "chatLine"}, MoveLists(MaxPly)),
                       Raisable)
    \/ \E s \in Sessions : SessionStreamEnd(s, Raisable)
    \/ Tick(TickStep)

SpecGame == InitGame /\ [][NextGame]_vars

\* Every request to the command sink and its failures: one challenge and one
\* gameStart; the session plays either colour from the initial position, its
\* stream carries keep-alive lines and White's first move, and time passes.
InitRequests == InitWith(Configs({"best"}, {FALSE}))

NextRequests ==
    \/ WatchControlStream({}, 1, 1)
    \/ HandleEvent
    \/ \E s \in Sessions :
         SessionInitialize(s, Snapshots(BOOLEAN, {TRUE}, {<<>>}), Raisable)
    \/ \E s \in Sessions : SessionFirstMove(s, Raisable)
    \/ \E s \in Sessions :
         SessionUpdate(s, GameMessages({"ping"}, {<<"e2e4">>}), Raisable)
    \/ \E s \in Sessions : SessionStreamEnd(s, Raisable)
    \/ Tick(TickStep)

SpecRequests == InitRequests /\ [][NextRequests]_vars

\* The orchestrator under fair scheduling: the relay is a process of its own
\* and keeps putting the lines of the feed (keep-alive lines, two challenges,
\* one gameStart), start() takes every event put in the control queue, and a
\* pool worker runs each launched play_game until it is over.
InitLive == InitWith(Configs({"best"}, {FALSE}))

NextLive ==
    \/ WatchControlStream({"ping"}, 2, 1)
    \/ HandleEvent
    \/ \E s \in Sessions :
         SessionInitialize(s, Snapshots({TRUE}, {TRUE}, {<<>>}), Raisable)
    \/ \E s \in Sessions : SessionFirstMove(s, Raisable)
    \/ \E s \in Sessions : SessionStreamEnd(s, Raisable)

Fairness ==
    /\ WF_vars(WatchControlStream({"ping"}, 2, 1))
    /\ WF_vars(HandleEvent)
    /\ \A s \in Sessions :
         /\ WF_vars(SessionInitialize(s, Snapshots({TRUE}, {TRUE}, {<<>>}),
                                      Raisable))
         /\ WF_vars(SessionFirstMove(s, Raisable))
         /\ WF_vars(SessionStreamEnd(s, Raisable))

SpecLive == InitLive /\ [][NextLive]_vars /\ Fairness

(* ------------------------------- claims ------------------------------- *)
DonesInQueue ==
    Cardinality({i \in 1..Len(control_queue) :
                   control_queue[i].type = "local_game_done"})

\* the step is one iteration of the loop of start()
Handled == ctl_pc = "loop" /\ control_queue # <<>>
           /\ control_queue' = Tail(control_queue)

\* a request of the last handled event failed with something else than 404
Refused(requests) ==
    \E i \in 1..Len(requests) : requests[i].status \notin {"ok", "404"}

\* the step is one of session s
Stepped(s) ==
    /\ sess_log'.game = s
    /\ sess_pc[s] \in Running
    /\ sess_pc'[s] # "Killed"
    /\ sess_pc'[s] # sess_pc[s] \/ streamed'[s] # streamed[s]

\* C1, as stated: after every handled control event queued_processes +
\* busy_processes is at most max_concurrent_games, also when a gameStart
\* arrives while queued is zero.
C1_SumWithinMax == queued_processes + busy_processes <= max_games

\* C1, amended: queued_processes + busy_processes is at most
\* max_concurrent_games plus the number of gameStart events handled while
\* queued was zero (each one printed as "Something went wrong").
C1_SumWithinMaxPlusAnomalies ==
    queued_processes + busy_processes <= max_games + anomalies

\* a gameStart came while queued was zero and the counters are at the bound
C1_Witness ==
    /\ ctl_pc = "loop"
    /\ anomalies = 1
    /\ queued_processes + busy_processes = max_games + anomalies

\* C2: every play_game that is over, by the end of its stream or by a
\* failure raised in any of its states, has put exactly one local_game_done.
C2_ExactlyOneDone ==
    \A s \in Sessions : sess_pc[s] \in Terminated => dones[s] = 1

\* C3: an engine that was made is quit exactly once on every path by which
\* play_game ends, and it is quit before local_game_done is put.
C3_EngineQuitOnce ==
    \A s \in Sessions :
        /\ sess_pc[s] \in Terminated /\ engine[s].made => engine[s].quits = 1
        /\ dones[s] > 0 => engine[s].quits = 1

\* C4: busy_processes is the number of launched sessions that have not been
\* reported done and consumed: the sessions still running plus the
\* local_game_done events still in the control queue.
C4_BusyCountsLiveSessions ==
    ctl_pc = "loop" =>
        busy_processes
          = Cardinality({s \in Sessions : sess_pc[s] \in Running}) + DonesInQueue

\* C5, as stated: after an event is processed the pending queue is never
\* longer than max_concurrent_games - busy_processes.
C5_PendingWithinFree ==
    ctl_pc = "loop" => Len(challenge_queue) <= max_games - busy_processes

\* C5, amended: after an event is processed challenges are left pending only
\* when no capacity is left (queued + busy >= max_concurrent_games); their
\* number is not bounded by max_concurrent_games - busy.
C5_PendingOnlyWhenFull ==
    ctl_pc = "loop" /\ challenge_queue # <<>> =>
        queued_processes + busy_processes >= max_games

\* more challenges are pending than max_concurrent_games - busy
C5_Witness ==
    /\ ctl_pc = "loop"
    /\ Len(challenge_queue) = 2
    /\ busy_processes = max_games

\* C6: the pending queue is in descending order of score, ties in order of
\* arrival, unless sort_challenges_by is "first", and then it is in order of
\* arrival whatever the scores.  (Challenge ids are issued in order of
\* arrival.)
C6_QueueOrdered ==
    \A i, j \in 1..Len(challenge_queue) :
        i < j =>
            LET a == challenge_queue[i]
                b == challenge_queue[j]
            IN  IF config.sort_challenges_by # "first"
                THEN a.score > b.score \/ (a.score = b.score /\ a.id < b.id)
                ELSE a.id < b.id

\* a later challenge with a higher score stands before an earlier one
C6_Witness ==
    /\ config.sort_challenges_by # "first"
    /\ Len(challenge_queue) = 2
    /\ challenge_queue[1].id > challenge_queue[2].id

\* C7: when accept_challenge fails with 404 in the drain loop, the challenge
\* is dropped, queued is not incremented for it, nothing is raised, and the
\* loop goes on to the next pending challenge while capacity remains.
C7_MissingChallengeSkipped ==
    [][Handled /\ (\E i \in 1..Len(li_log'.accept) :
                     li_log'.accept[i].status = "404")
       => LET acc == li_log'.accept
              oks == Cardinality({i \in 1..Len(acc) : acc[i].status = "ok"})
              started == Head(control_queue).type = "gameStart"
                         /\ queued_processes > 0
          IN  /\ queued_processes'
                   = queued_processes - (IF started THEN 1 ELSE 0) + oks
              /\ \A i \in 1..Len(acc), k \in 1..Len(challenge_queue') :
                    challenge_queue'[k].id # acc[i].id
              /\ ~Refused(acc) => ctl_pc' = "loop"
              /\ acc[Len(acc)].status = "404" =>
                    \/ challenge_queue' = <<>>
                    \/ queued_processes' + busy_processes' >= max_games
      ]_vars

\* an accept answered 404 was followed by the accept of the next challenge
C7_Witness ==
    /\ ctl_pc = "loop"
    /\ Len(li_log.accept) = 2
    /\ li_log.accept[1].status = "404"
    /\ li_log.accept[2].status = "ok"

\* a move submission or an abort made by a session failed
SessionRequestFailed ==
    /\ sess_log.raised # "none"
    /\ sess_log.calls \cap {"make_move", "abort"} # {}

\* C8, as stated: a failure other than not-found of accept, decline, move
\* submission or abort, also inside a session, leaves the loop of start()
\* and stops the orchestrator.
C8_EveryFailureStopsLoop ==
    /\ Refused(li_log.decline \o li_log.accept) => ctl_pc = "raised"
    /\ SessionRequestFailed /\ control_queue = <<>> => ctl_pc = "raised"

\* C8, amended: a failure other than not-found of accept or decline leaves
\* the loop of start() and stops the orchestrator; a failure of a move
\* submission or of an abort inside a session ends that session at most and
\* leaves the loop as it is.
C8_OnlyControlFailuresStopLoop ==
    /\ [](Refused(li_log.decline \o li_log.accept) => ctl_pc = "raised")
    /\ [][\A s \in Sessions :
             Stepped(s) /\ sess_log'.calls \cap {"make_move", "abort"} # {}
                        /\ sess_log'.raised # "none"
             => /\ ctl_pc' = ctl_pc
                /\ sess_pc'[s] \in Terminated
                /\ \A t \in Sessions \ {s} : sess_pc'[t] = sess_pc[t]
         ]_vars

\* a session's move submission failed, its local_game_done was handled, and
\* later a refused accept stopped the loop
C8_Witness ==
    /\ SessionRequestFailed
    /\ sess_log.msg = "gameState"
    /\ control_queue = <<>>
    /\ Refused(li_log.accept)
    /\ ctl_pc = "raised"

\* C9: a transport failure while a game is streamed ends that session only:
\* the session reports its one local_game_done, the loop of start() and the
\* other sessions are left as they are, and only a refused accept or decline
\* ever stops the loop.
C9_TransportFailureEndsOneSession ==
    /\ [](ctl_pc = "raised" => Refused(li_log.decline \o li_log.accept))
    /\ [][\A s \in Sessions :
             Stepped(s) /\ sess_pc[s] = "Active"
                        /\ sess_log'.raised \in TransportErrors
             => /\ sess_pc'[s] = "Abandoned"
                /\ control_queue' = Append(control_queue, LocalGameDone)
                /\ UNCHANGED ctl_vars
                /\ \A t \in Sessions \ {s} :
                      /\ sess_pc'[t] = sess_pc[t]
                      /\ game'[t] = game[t]
                      /\ board'[t] = board[t]
                      /\ engine'[t] = engine[t]
                      /\ dones'[t] = dones[t]
         ]_vars

\* one session was abandoned on a transport failure while another one is
\* active and the loop runs
C9_Witness ==
    /\ ctl_pc = "loop"
    /\ sess_log.raised \in TransportErrors
    /\ sess_log.game # 0
    /\ sess_pc[sess_log.game] = "Abandoned"
    /\ \E t \in Sessions : sess_pc[t] = "Active"

\* the step is the handling of a ping of the game stream of s
PingStep(s) == Stepped(s) /\ sess_log'.msg = "ping"

\* C10, as stated: on a ping an abort is requested if and only if the
\* deadline has passed and the number of moves played is below the minimum
\* the code names.
C10_AbortIffFewMoves ==
    [][\A s \in Sessions :
         PingStep(s) =>
            ("abort" \in sess_log'.calls
               <=> now > game[s].abort_at /\ Len(game[s].moves) < AbortMovesLen)
      ]_vars

\* C10, amended: on a ping an abort is requested if and only if the deadline
\* has passed (not at the deadline itself) and the string of the moves
\* played is shorter than 6 characters, which is: fewer than 2 moves were
\* played.
C10_AbortIffFirstMoves ==
    [][\A s \in Sessions :
         PingStep(s) =>
            ("abort" \in sess_log'.calls
               <=> now > game[s].abort_at /\ Len(game[s].moves) < 2)
      ]_vars

\* a ping past the deadline, with one move played, had the abort requested
C10_Witness ==
    /\ sess_log.msg = "ping"
    /\ "abort" \in sess_log.calls
    /\ sess_log.raised = "none"
    /\ Len(game[sess_log.game].moves) = 1

\* 2 * polyglot_max_depth - 1: the last ply at which the book may be asked
BookWindow == (2 * config.engine.polyglot_max_depth) - 1

\* C11: in every state of a session, the first move included, get_book_move
\* is called only while the ply count is at most 2 * polyglot_max_depth - 1;
\* beyond that window a move comes from the engine alone.
C11_BookOnlyInDepth ==
    /\ "get_book_move" \in sess_log.calls => sess_log.ply <= BookWindow
    /\ "make_move" \in sess_log.calls /\ sess_log.ply > BookWindow =>
          sess_log.calls \cap {"search", "first_search"} # {}

\* the step of session s evaluated is_engine_move
TurnStep(s) ==
    /\ Stepped(s)
    /\ sess_log'.msg \in {"first", "gameState"}
    /\ sess_log'.raised # "IndexError"

\* C12, as stated: is_engine_move depends on the session's colour and the
\* ply count only: it is true exactly when the session is White and the ply
\* count is even, or Black and the ply count is odd.  (A move is submitted
\* exactly when is_engine_move is true.)
C12_TurnByColourAndPly ==
    [][\A s \in Sessions :
         TurnStep(s) =>
            ("make_move" \in sess_log'.calls
               <=> \/ game[s].is_white /\ sess_log'.ply % 2 = 0
                   \/ ~game[s].is_white /\ sess_log'.ply % 2 = 1)
      ]_vars

\* C12, amended: is_engine_move depends on the session's colour, the ply
\* count and the side that has the first move of the game (white_starts): it
\* is true exactly when the session is White and White is to move, or Black
\* and Black is to move, White being to move at even plies when White
\* starts and at odd plies when Black starts.  The same colour, start and
\* ply count give the same result at the first move and at every update.
C12_TurnByColourPlyAndStart ==
    [][\A s \in Sessions :
         TurnStep(s) =>
            ("make_move" \in sess_log'.calls
               <=> (game[s].is_white
                      <=> ((sess_log'.ply % 2 = 0) <=> game[s].white_starts)))
      ]_vars

\* White moved at ply 1 in a game that Black started
C12_Witness ==
    /\ sess_log.game # 0
    /\ sess_log.msg = "gameState"
    /\ sess_log.raised = "none"
    /\ "make_move" \in sess_log.calls
    /\ sess_log.ply = 1
    /\ game[sess_log.game].is_white
    /\ ~game[sess_log.game].white_starts

\* the step is one iteration of the for loop of watch_control_stream
Relayed ==
    /\ control_queue' # control_queue
    /\ ~Handled
    /\ UNCHANGED ctl_vars
    /\ UNCHANGED sess_vars

\* e is what the relay puts for the line the remote sent in this step
PutForLine(e) ==
    \/ /\ next_chal' = next_chal + 1 /\ next_game' = next_game
       /\ e.type = "challenge" /\ e.challenge.id = next_chal' /\ e.game = 0
    \/ /\ next_game' = next_game + 1 /\ next_chal' = next_chal
       /\ e.type = "gameStart" /\ e.game = next_game' /\ e.challenge = NoChal
    \/ /\ UNCHANGED remote_vars
       /\ e \in {Ping, Event("chatLine", NoChal, 0)}

C14_RelayStoppedWhenLoopEnds ==
    /\ ctl_pc = "raised" => control_stream = "terminated"
    /\ (\E s \in Sessions : sess_pc[s] = "Killed") =>
          control_stream = "terminated"

\* accepts of the handled event that were answered ok
Accepted(acc) == Cardinality({i \in 1..Len(acc) : acc[i].status = "ok"})

\* C15: queued_processes and busy_processes are never negative.  A gameStart
\* handled while queued is zero is counted as an anomaly and is not fatal:
\* queued is not decremented for it, the session is launched and busy
\* incremented.  busy is decremented by one, and only when a local_game_done
\* is handled; every session still running and every local_game_done still
\* in the control queue is counted in busy.
C15_CountersNotNegative ==
    /\ [](/\ queued_processes >= 0
          /\ busy_processes >= 0
          /\ busy_processes
               >= Cardinality({s \in Sessions : sess_pc[s] \in Running})
                  + DonesInQueue)
    /\ [][Handled /\ Head(control_queue).type = "gameStart"
                  /\ queued_processes = 0
             => /\ anomalies' = anomalies + 1
                /\ queued_processes' = Accepted(li_log'.accept)
                /\ busy_processes' = busy_processes + 1
                /\ sess_pc[Head(control_queue).game] = "Unlaunched"
                /\ sess_pc'[Head(control_queue).game] \in {"Initializing", "Killed"}
                /\ ~Refused(li_log'.accept) => ctl_pc' = "loop"
         ]_vars
    /\ [][busy_processes' < busy_processes
             => /\ Handled
                /\ Head(control_queue).type = "local_game_done"
                /\ busy_processes' = busy_processes - 1
         ]_vars

\* a gameStart came while queued was zero; its session was launched, ended,
\* and its local_game_done brought busy back to zero
C15_Witness ==
    /\ ctl_pc = "loop"
    /\ anomalies = 1
    /\ next_game = 1
    /\ queued_processes = 0
    /\ busy_processes = 0
    /\ dones[1] = 1
    /\ DonesInQueue = 0

\* C16: when the loop of start() has handled a control event of any type,
\* the pending queue is empty or busy + queued is at least
\* max_concurrent_games; queued grows by one for each accept answered ok in
\* the handling, and by nothing else, and each accept is made for a
\* different challenge, taken from the head of the pending queue.
C16_DrainedAfterEvent ==
    [][Handled =>
         LET acc == li_log'.accept
             started == Head(control_queue).type = "gameStart"
                        /\ queued_processes > 0
         IN  /\ ctl_pc' = "loop" =>
                   \/ challenge_queue' = <<>>
                   \/ busy_processes' + queued_processes' >= max_games
             /\ queued_processes'
                  = queued_processes - (IF started THEN 1 ELSE 0) + Accepted(acc)
             /\ \A i, j \in 1..Len(acc) : i # j => acc[i].id # acc[j].id
             /\ \A i \in 1..Len(acc), k \in 1..Len(challenge_queue') :
                   challenge_queue'[k].id # acc[i].id
             /\ Head(control_queue).type \in {"ping", "chatLine"} =>
                   /\ busy_processes' = busy_processes
                   /\ Len(challenge_queue') + Len(acc) = Len(challenge_queue)
      ]_vars

\* a slot came free, the head of the pending queue was accepted and queued
\* is one, while another challenge stays pending
C16_Witness ==
    /\ ctl_pc = "loop"
    /\ Len(li_log.accept) = 1
    /\ li_log.accept[1].status = "ok"
    /\ queued_processes = 1
    /\ challenge_queue # <<>>

\* C17: a challenge that is not supported is declined with one request, is
\* not put in the pending queue and is not accepted; when the decline is
\* answered ok or 404 the counters, the pending queue and the sessions stay
\* as they were and the loop goes on; a supported challenge, or another
\* event, is never declined.
C17_UnsupportedDeclined ==
    [][Handled =>
         LET event == Head(control_queue)
             dec == li_log'.decline
         IN  IF event.type = "challenge" /\ ~event.challenge.supported
             THEN /\ Len(dec) = 1
                  /\ dec[1].id = event.challenge.id
                  /\ \A k \in 1..Len(challenge_queue') :
                        challenge_queue'[k].id # event.challenge.id
                  /\ \A i \in 1..Len(li_log'.accept) :
                        li_log'.accept[i].id # event.challenge.id
                  /\ dec[1].status \in {"ok", "404"} =>
                        /\ ctl_pc' = "loop"
                        /\ queued_processes' = queued_processes
                        /\ busy_processes' = busy_processes
                        /\ challenge_queue' = challenge_queue
                        /\ li_log'.accept = <<>>
                        /\ sess_pc' = sess_pc
             ELSE dec = <<>>
      ]_vars

\* a decline answered 404 left a pending challenge where it was and the loop
\* running
C17_Witness ==
    /\ ctl_pc = "loop"
    /\ Len(li_log.decline) = 1
    /\ li_log.decline[1].status = "404"
    /\ challenge_queue # <<>>

\* C18: when a session has processed a gameState update, the move stack of
\* its board is the move list of that update, whatever the list: unchanged,
\* empty, or longer by more than one move; no move list makes the
\* processing fail.
C18_BoardIsMoveList ==
    \A s \in Sessions :
        sess_log.game = s /\ sess_log.msg = "gameState" =>
            /\ sess_log.raised # "IndexError"
            /\ sess_pc[s] = "Active" => board[s] = game[s].moves

\* C19, as stated: at the first move a move is submitted only if it is the
\* session's turn and the snapshot holds no move; with moves in the snapshot
\* nothing is asked of the book or the engine and nothing is submitted
\* before the first gameState update.
C19_OpeningMoveOnlyAtPlyZero ==
    sess_log.msg = "first" =>
        /\ "make_move" \in sess_log.calls => sess_log.ply = 0
        /\ sess_log.ply > 0 => sess_log.calls = {}

\* C19, amended: at the first move a move is submitted exactly when it is
\* the session's turn in the position of the snapshot, however many moves
\* the snapshot holds; the move is the book's, or comes from first_search
\* when the book is off or has none; search with the clocks is not used.
C19_OpeningMoveWhenOnTurn ==
    [][\A s \in Sessions :
         Stepped(s) /\ sess_log'.msg = "first" =>
            LET calls == sess_log'.calls
                turn == game[s].is_white
                          <=> ((Len(game[s].moves) % 2 = 0)
                                 <=> game[s].white_starts)
            IN  /\ sess_log'.ply = Len(game[s].moves)
                /\ "make_move" \in calls <=> turn
                /\ ~turn => calls = {}
                /\ "search" \notin calls
                /\ turn /\ ~config.engine.polyglot =>
                      calls = {"first_search", "make_move"}
                /\ turn /\ config.engine.polyglot =>
                      calls \in {{"get_book_move", "make_move"},
                                 {"get_book_move", "first_search", "make_move"}}
      ]_vars

\* Black entered after White's first move and submitted its reply from
\* first_search
C19_Witness ==
    /\ sess_log.msg = "first"
    /\ sess_log.raised = "none"
    /\ sess_log.ply = 1
    /\ sess_log.calls = {"first_search", "make_move"}
    /\ ~game[sess_log.game].is_white
    /\ game[sess_log.game].white_starts

\* the challenge with this id is in the pending queue
Pending(id) ==
    \E k \in 1..Len(challenge_queue) : challenge_queue[k].id = id

\* C20: as long as the loop of start() runs and the game of every accepted
\* challenge is started, every challenge in the pending queue is eventually
\* popped from it, since every launched session eventually gives its slot
\* back.
C20_NoStarvation ==
    \/ <>(ctl_pc = "raised")
    \/ <>[](queued_processes > 0)
    \/ \A id \in 1..MaxChallenges : Pending(id) ~> ~Pending(id)

====
